---- MODULE Spec2Model ----
(***************************************************************************)
(* Model of the merge-and-bounded-aggregation engine of src/cli/main.py:   *)
(* InputStream (lazy row source), Multi (k-way time-ordered merge) and     *)
(* Process.process (active window of patient records, eviction, duplicate  *)
(* field restart, final drain, totals) together with the output writes.    *)
(***************************************************************************)
EXTENDS Integers, Sequences, FiniteSets, TLC

\* ------------------------------------------------------------------------
\* Bounds of the model
\* ------------------------------------------------------------------------
NStreams == 2
MaxRows == 4
MaxK == 1

\* ------------------------------------------------------------------------
\* Input rows (InputStream.__next__)
\* ------------------------------------------------------------------------
Row(p, t, e, v) ==
  [patient_id |-> p, timestamp |-> t, event_type |-> e, value |-> v]

\* the rows a download may carry; timestamps 1, 2, 3 stand for
\* 10:00, 10:01, 10:02
Rows ==
  { Row("P1", 1, "HR", 60), Row("P2", 2, "SpO2", 97), Row("P1", 3, "HR", 65),
    Row("P3", 1, "HR", 70), Row("P3", 2, "SpO2", 98), Row("P3", 3, "HR", 72) }

EventTypes == { r.event_type : r \in Rows }

NoRow == Row("", 0, "", 0)

\* next(self.reader) raised StopIteration
StopIteration == NoRow

\* argparse leaves --npatients at None when it is not given
None == -1

\* the "timestamp" key of a record after writedata deleted it
NoTimestamp == -1

EmptyMap == [x \in {} |-> 0]

VARIABLES
  pulled,         \* the rows each InputStream has returned so far
  exhausted,      \* the InputStreams that have raised StopIteration
  args_npatients, \* self.args.npatients
  pc,             \* position of Process.process
  npatients,      \* local npatients of process()
  datas,          \* Multi.datas
  row,            \* loop variable of "for row in multi"
  patients,       \* local dict patients, in insertion order
  counts,         \* local dict counts
  nrows,          \* local nrows
  firstpatient,   \* self.firstpatient
  out,            \* what has been written to self.ofp
  merged,         \* history: rows returned by Multi.__next__, with their source
  nrec,           \* history: number of records created so far
  failed,         \* history: a pull raised an error
  folded,         \* history: the record each processed row was stored in
  sorted_inputs,  \* whether the downloads keep their rows ordered by time
  twin,           \* a second run of process() on the same rows
  gen             \* the server's build_exports and DownloadMeta.csv

vars ==
  << pulled, exhausted, args_npatients, pc, npatients, datas, row, patients,
     counts, nrows, firstpatient, out, merged, nrec, failed, folded,
     sorted_inputs, twin, gen >>

\* ------------------------------------------------------------------------
\* InputStream.__next__: the next row of a download, whose rows are
\* non-decreasing in event_time, or StopIteration
\* ------------------------------------------------------------------------
RECURSIVE SumLen(_, _)
SumLen(f, i) == IF i > NStreams THEN 0 ELSE Len(f[i]) + SumLen(f, i + 1)

TotalRows == SumLen(pulled, 1)

NextRows(i) ==
  IF TotalRows >= MaxRows THEN {}
  ELSE { r \in Rows :
           \/ ~ sorted_inputs
           \/ pulled[i] = << >>
           \/ pulled[i][Len(pulled[i])].timestamp <= r.timestamp }

Outcomes(i) == NextRows(i) \cup {StopIteration}

\* ------------------------------------------------------------------------
\* Multi.timesort: sorted() is stable
\* ------------------------------------------------------------------------
RECURSIVE InsertSorted(_, _)
InsertSorted(x, s) ==
  IF s = << >> THEN << x >>
  ELSE IF x.row.timestamp < Head(s).row.timestamp
       THEN << x >> \o s
       ELSE << Head(s) >> \o InsertSorted(x, Tail(s))

RECURSIVE InsertBeforeEqual(_, _)
InsertBeforeEqual(x, s) ==
  IF s = << >> THEN << x >>
  ELSE IF x.row.timestamp <= Head(s).row.timestamp
       THEN << x >> \o s
       ELSE << Head(s) >> \o InsertBeforeEqual(x, Tail(s))

RECURSIVE SortFrom(_, _)
SortFrom(array, acc) ==
  IF array = << >> THEN acc
  ELSE SortFrom(Tail(array), InsertSorted(Head(array), acc))

RECURSIVE SortFromUnstable(_, _)
SortFromUnstable(array, acc) ==
  IF array = << >> THEN acc
  ELSE SortFromUnstable(Tail(array), InsertBeforeEqual(Head(array), acc))

\* faulty variants of timesort: no sort at all; a sort that reverses ties
timesort_none(array) == array

timesort_unstable(array) == SortFromUnstable(array, << >>)

timesort(array) == SortFrom(array, << >>)

\* list.pop() instead of list.pop(0)
pop_last(array) == SubSeq(array, 1, Len(array) - 1)

pop_first(array) == Tail(array)

\* ------------------------------------------------------------------------
\* Multi.__init__: one head per non-empty stream, then timesort
\* ------------------------------------------------------------------------
RECURSIVE PrimeHeads(_, _)
PrimeHeads(h, i) ==
  IF i > NStreams THEN << >>
  ELSE IF h[i] # StopIteration
       THEN << [stream |-> i, row |-> h[i], at |-> 0] >>
            \o PrimeHeads(h, i + 1)
       ELSE PrimeHeads(h, i + 1)

\* what the first next(stream) of every stream may return
FirstRows ==
  { h \in [1..NStreams -> Rows \cup {StopIteration}] :
      Cardinality({ i \in 1..NStreams : h[i] # StopIteration }) <= MaxRows }

PulledFirst(h, k) ==
  [i \in 1..NStreams |->
     IF i < k /\ h[i] # StopIteration THEN << h[i] >> ELSE << >>]

ExhaustedFirst(h, k) ==
  { i \in 1..NStreams : i < k /\ h[i] = StopIteration }

\* ------------------------------------------------------------------------
\* Process.writedata and the records of the window
\* ------------------------------------------------------------------------
Token(kind, patient_id, data, rid) ==
  [kind |-> kind, patient_id |-> patient_id, data |-> data, rid |-> rid]

Header == Token("header", "", EmptyMap, 0)
Separator == Token("sep", "", EmptyMap, 0)
TotalsToken(c) == Token("totals", "", c, 0)
Close == Token("close", "", EmptyMap, 0)
RecordToken(rec) == Token("record", rec.patient_id, rec.data, rec.rid)

\* the separator written without looking at firstpatient
writedata_always_sep(o, first, rec) ==
  o \o << Separator, RecordToken(rec) >>

writedata(o, first, rec) ==
  IF first THEN Append(o, RecordToken(rec))
  ELSE o \o << Separator, RecordToken(rec) >>

NewRecord(r, id) ==
  [patient_id |-> r.patient_id,
   data |-> (r.event_type :> r.value),
   timestamp |-> r.timestamp,
   rid |-> id]

IndexOf(ps, patient_id) ==
  IF \E k \in 1..Len(ps) : ps[k].patient_id = patient_id
  THEN CHOOSE k \in 1..Len(ps) : ps[k].patient_id = patient_id
  ELSE 0

\* counts[row["event_type"]] += 1, created at 0 when missing
count_once(c, r) == (r.event_type :> 1) @@ c

count_row(c, r) ==
  IF r.event_type \in DOMAIN c
  THEN [c EXCEPT ![r.event_type] = c[r.event_type] + 1]
  ELSE (r.event_type :> 1) @@ c

\* the scan for the oldest record: strict <, first minimum in dict order
RECURSIVE ScanOldest(_, _, _)
ScanOldest(ps, k, opt) ==
  IF k > Len(ps) THEN opt
  ELSE IF opt = 0 \/ ps[k].timestamp < ps[opt].timestamp
       THEN ScanOldest(ps, k + 1, k)
       ELSE ScanOldest(ps, k + 1, opt)

RECURSIVE ScanNewest(_, _, _)
ScanNewest(ps, k, opt) ==
  IF k > Len(ps) THEN opt
  ELSE IF opt = 0 \/ ps[k].timestamp > ps[opt].timestamp
       THEN ScanNewest(ps, k + 1, k)
       ELSE ScanNewest(ps, k + 1, opt)

newest_index(ps) == ScanNewest(ps, 1, 0)

oldest_index(ps) == ScanOldest(ps, 1, 0)

RemoveAt(ps, k) == SubSeq(ps, 1, k - 1) \o SubSeq(ps, k + 1, Len(ps))

\* del patients[opt] forgotten
keep_patient(ps, k) == ps

del_patient(ps, k) == RemoveAt(ps, k)

\* the final "for pt, data in patients.items(): self.writedata(pt, data)"
RECURSIVE WriteAll(_, _, _)
WriteAll(o, first, ps) ==
  IF ps = << >> THEN o
  ELSE WriteAll(writedata(o, first, Head(ps)), FALSE, Tail(ps))

drain_nothing(o, first, ps) == o

drain_records(o, first, ps) == WriteAll(o, first, ps)

\* "if len(patients) > npatients"; with >= on a window that holds a record
\* the window is cut one short
window_full_early(ps, n) == ps # << >> /\ Len(ps) >= n

window_full(ps, n) == Len(ps) > n

\* npatients as process() computes it from the arguments
capacity(a) == IF a = None THEN NStreams ELSE a

\* ------------------------------------------------------------------------
\* The second run: the loop body of process() as one function of the
\* window, applied to the same rows with another capacity
\* ------------------------------------------------------------------------
TwinOff ==
  [on |-> FALSE, args |-> None, npatients |-> 0, patients |-> << >>,
   counts |-> EmptyMap]

TwinWith(a) == [TwinOff EXCEPT !.on = TRUE, !.args = a]

twin_start(tw) ==
  IF tw.on THEN [tw EXCEPT !.npatients = capacity(tw.args)] ELSE tw

fold_window(ps, n, r) ==
  LET k == IndexOf(ps, r.patient_id)
  IN IF k # 0
     THEN IF r.event_type \in DOMAIN ps[k].data
          THEN [ps EXCEPT ![k] = NewRecord(r, 0)]
          ELSE [ps EXCEPT ![k].data = (r.event_type :> r.value) @@ ps[k].data,
                          ![k].timestamp = r.timestamp]
     ELSE IF window_full(ps, n)
          THEN Append(del_patient(ps, oldest_index(ps)), NewRecord(r, 0))
          ELSE Append(ps, NewRecord(r, 0))

\* counting skipped for the row that evicts
twin_count_unless_full(tw, r) ==
  IF IndexOf(tw.patients, r.patient_id) = 0
     /\ window_full(tw.patients, tw.npatients)
  THEN tw.counts
  ELSE count_row(tw.counts, r)

twin_count(tw, r) == count_row(tw.counts, r)

twin_fold(tw, r) ==
  IF tw.on
  THEN [tw EXCEPT !.counts = twin_count(tw, r),
                  !.patients = fold_window(tw.patients, tw.npatients, r)]
  ELSE tw

\* ------------------------------------------------------------------------
\* Initial state: Process constructed, arguments parsed
\* ------------------------------------------------------------------------
GenIdle ==
  [pc |-> "build", curr_time |-> 0, downloads |-> << >>, d |-> 0, i |-> 0,
   csv_time |-> 0, ts |-> << >>]

Arguments == {None} \cup (0..MaxK)

ProcessInit ==
  /\ pulled = [i \in 1..NStreams |-> << >>]
  /\ exhausted = {}
  /\ pc = "start"
  /\ npatients = 0
  /\ datas = << >>
  /\ row = NoRow
  /\ patients = << >>
  /\ counts = EmptyMap
  /\ nrows = 0
  /\ firstpatient = TRUE
  /\ out = << >>
  /\ merged = << >>
  /\ nrec = 0
  /\ failed = FALSE
  /\ folded = << >>

Init ==
  /\ ProcessInit
  /\ args_npatients \in Arguments
  /\ sorted_inputs = TRUE
  /\ twin = TwinOff
  /\ gen = GenIdle

\* ------------------------------------------------------------------------
\* Process.process up to the creation of Multi
\* ------------------------------------------------------------------------
Start ==
  /\ pc = "start"
  /\ counts' = EmptyMap
  /\ firstpatient' = TRUE
  /\ out' = << Header >>
  /\ npatients' = capacity(args_npatients)
  /\ pc' = "prime"
  /\ UNCHANGED << pulled, exhausted, args_npatients, datas, row, patients,
                  nrows, merged, nrec, failed >>
  /\ twin' = twin_start(twin)
  /\ UNCHANGED folded
  /\ UNCHANGED << sorted_inputs, gen >>

\* the export ID is not among the server's export_ids: self.error, exit(1),
\* before the output file is opened
StartUnknownExport ==
  /\ pc = "start"
  /\ pc' = "exit_export"
  /\ UNCHANGED << pulled, exhausted, args_npatients, npatients, datas, row,
                  patients, counts, nrows, firstpatient, out, merged, nrec,
                  failed, folded, twin, sorted_inputs, gen >>

\* the server does not know a download ID: the response of self.get is not
\* ok, self.error, exit(1); the output file is open and holds the header
StartUnknownDownload ==
  /\ pc = "start"
  /\ counts' = EmptyMap
  /\ firstpatient' = TRUE
  /\ out' = << Header >>
  /\ npatients' = capacity(args_npatients)
  /\ pc' = "exit_download"
  /\ twin' = twin_start(twin)
  /\ UNCHANGED << pulled, exhausted, args_npatients, datas, row, patients,
                  nrows, merged, nrec, failed, folded, sorted_inputs, gen >>

\* an error raised by a pull leaves process(): nothing catches it
swallow_error(next) ==
  /\ pc' = next
  /\ failed' = TRUE

propagate_error(next) ==
  /\ pc' = "aborted"
  /\ failed' = TRUE

MultiInit ==
  /\ pc = "prime"
  /\ \E h \in FirstRows :
       /\ datas' = timesort(PrimeHeads(h, 1))
       /\ pulled' = PulledFirst(h, NStreams + 1)
       /\ exhausted' = ExhaustedFirst(h, NStreams + 1)
  /\ pc' = "loop"
  /\ UNCHANGED << args_npatients, npatients, row, patients, counts, nrows,
                  firstpatient, out, merged, nrec, failed >>
  /\ UNCHANGED << folded, twin >>
  /\ UNCHANGED << sorted_inputs, gen >>

\* next(stream) raises something other than StopIteration for stream k
MultiInitFail ==
  /\ pc = "prime"
  /\ \E h \in FirstRows, k \in 1..NStreams :
       /\ pulled' = PulledFirst(h, k)
       /\ exhausted' = ExhaustedFirst(h, k)
  /\ propagate_error("loop")
  /\ UNCHANGED << args_npatients, npatients, datas, row, patients, counts,
                  nrows, firstpatient, out, merged, nrec >>
  /\ UNCHANGED << folded, twin >>
  /\ UNCHANGED << sorted_inputs, gen >>

\* ------------------------------------------------------------------------
\* Multi.__next__
\* ------------------------------------------------------------------------
MultiNext ==
  /\ pc = "loop"
  /\ Len(datas) # 0
  /\ LET s == datas[1].stream
         firstrow == datas[1].row
     IN /\ \E r \in Outcomes(s) :
             IF r # StopIteration
             THEN /\ datas' = timesort([datas EXCEPT
                                          ![1].row = r,
                                          ![1].at = Len(merged) + 1])
                  /\ pulled' = [pulled EXCEPT ![s] = Append(pulled[s], r)]
                  /\ exhausted' = exhausted
             ELSE /\ datas' = pop_first(datas)
                  /\ pulled' = pulled
                  /\ exhausted' = exhausted \cup {s}
        /\ row' = firstrow
        /\ merged' = Append(merged, [stream |-> s, row |-> firstrow])
  /\ pc' = "body"
  /\ UNCHANGED << args_npatients, npatients, patients, counts, nrows,
                  firstpatient, out, nrec, failed >>
  /\ UNCHANGED << folded, twin >>
  /\ UNCHANGED << sorted_inputs, gen >>

MultiNextFail ==
  /\ pc = "loop"
  /\ Len(datas) # 0
  /\ propagate_error("drain")
  /\ UNCHANGED << pulled, exhausted, args_npatients, npatients, datas, row,
                  patients, counts, nrows, firstpatient, out, merged, nrec >>
  /\ UNCHANGED << folded, twin >>
  /\ UNCHANGED << sorted_inputs, gen >>

MultiStop ==
  /\ pc = "loop"
  /\ Len(datas) = 0
  /\ pc' = "drain"
  /\ UNCHANGED << pulled, exhausted, args_npatients, npatients, datas, row,
                  patients, counts, nrows, firstpatient, out, merged, nrec,
                  failed >>
  /\ UNCHANGED << folded, twin >>
  /\ UNCHANGED << sorted_inputs, gen >>

\* ------------------------------------------------------------------------
\* Body of "for row in multi"
\* ------------------------------------------------------------------------
InWindow(patient_id) == IndexOf(patients, patient_id) # 0

Counted ==
  /\ counts' = count_row(counts, row)
  /\ nrows' = nrows + 1

\* duplicate event for the same patient, fields carried forward
RestartMerge ==
  /\ pc = "body"
  /\ InWindow(row.patient_id)
  /\ LET k == IndexOf(patients, row.patient_id)
     IN /\ row.event_type \in DOMAIN patients[k].data
        /\ out' = writedata(out, firstpatient, patients[k])
        /\ patients' = [patients EXCEPT
                          ![k] = [NewRecord(row, nrec + 1) EXCEPT
                                    !.data = (row.event_type :> row.value)
                                             @@ patients[k].data]]
  /\ Counted
  /\ firstpatient' = FALSE
  /\ nrec' = nrec + 1
  /\ pc' = "loop"
  /\ UNCHANGED << pulled, exhausted, args_npatients, npatients, datas, row,
                  merged, failed >>
  /\ folded' = Append(folded, patients'[IndexOf(patients', row.patient_id)].rid)
  /\ twin' = twin_fold(twin, row)
  /\ UNCHANGED << sorted_inputs, gen >>

\* duplicate event for the same patient, the value replaced in the record
RestartOverwrite ==
  /\ pc = "body"
  /\ InWindow(row.patient_id)
  /\ LET k == IndexOf(patients, row.patient_id)
     IN /\ row.event_type \in DOMAIN patients[k].data
        /\ patients' = [patients EXCEPT
                          ![k].data = (row.event_type :> row.value)
                                      @@ patients[k].data,
                          ![k].timestamp = row.timestamp]
  /\ Counted
  /\ pc' = "loop"
  /\ UNCHANGED << pulled, exhausted, args_npatients, npatients, datas, row,
                  firstpatient, out, merged, nrec, failed >>
  /\ folded' = Append(folded, patients'[IndexOf(patients', row.patient_id)].rid)
  /\ twin' = twin_fold(twin, row)
  /\ UNCHANGED << sorted_inputs, gen >>

Restart ==
  /\ pc = "body"
  /\ InWindow(row.patient_id)
  /\ LET k == IndexOf(patients, row.patient_id)
     IN /\ row.event_type \in DOMAIN patients[k].data
        /\ out' = writedata(out, firstpatient, patients[k])
        /\ patients' = [patients EXCEPT ![k] = NewRecord(row, nrec + 1)]
  /\ Counted
  /\ firstpatient' = FALSE
  /\ nrec' = nrec + 1
  /\ pc' = "loop"
  /\ UNCHANGED << pulled, exhausted, args_npatients, npatients, datas, row,
                  merged, failed >>
  /\ folded' = Append(folded, patients'[IndexOf(patients', row.patient_id)].rid)
  /\ twin' = twin_fold(twin, row)
  /\ UNCHANGED << sorted_inputs, gen >>

\* existing patient, new event: the field added, the timestamp left as is
UpdateKeepTs ==
  /\ pc = "body"
  /\ InWindow(row.patient_id)
  /\ LET k == IndexOf(patients, row.patient_id)
     IN /\ row.event_type \notin DOMAIN patients[k].data
        /\ patients' = [patients EXCEPT
                          ![k].data = (row.event_type :> row.value)
                                      @@ patients[k].data]
  /\ Counted
  /\ pc' = "loop"
  /\ UNCHANGED << pulled, exhausted, args_npatients, npatients, datas, row,
                  firstpatient, out, merged, nrec, failed >>
  /\ folded' = Append(folded, patients'[IndexOf(patients', row.patient_id)].rid)
  /\ twin' = twin_fold(twin, row)
  /\ UNCHANGED << sorted_inputs, gen >>

Update ==
  /\ pc = "body"
  /\ InWindow(row.patient_id)
  /\ LET k == IndexOf(patients, row.patient_id)
     IN /\ row.event_type \notin DOMAIN patients[k].data
        /\ patients' = [patients EXCEPT
                          ![k].data = (row.event_type :> row.value)
                                      @@ patients[k].data,
                          ![k].timestamp = row.timestamp]
  /\ Counted
  /\ pc' = "loop"
  /\ UNCHANGED << pulled, exhausted, args_npatients, npatients, datas, row,
                  firstpatient, out, merged, nrec, failed >>
  /\ folded' = Append(folded, patients'[IndexOf(patients', row.patient_id)].rid)
  /\ twin' = twin_fold(twin, row)
  /\ UNCHANGED << sorted_inputs, gen >>

\* new patient, room left: "start new record"
InsertNew ==
  /\ pc = "body"
  /\ ~ InWindow(row.patient_id)
  /\ ~ window_full(patients, npatients)
  /\ patients' = Append(patients, NewRecord(row, nrec + 1))
  /\ Counted
  /\ nrec' = nrec + 1
  /\ pc' = "loop"
  /\ UNCHANGED << pulled, exhausted, args_npatients, npatients, datas, row,
                  firstpatient, out, merged, failed >>
  /\ folded' = Append(folded, patients'[IndexOf(patients', row.patient_id)].rid)
  /\ twin' = twin_fold(twin, row)
  /\ UNCHANGED << sorted_inputs, gen >>

\* new patient, window full: emit the oldest record and delete it
EvictOldest ==
  /\ pc = "body"
  /\ ~ InWindow(row.patient_id)
  /\ window_full(patients, npatients)
  /\ LET opt == oldest_index(patients)
     IN /\ out' = writedata(out, firstpatient, patients[opt])
        /\ patients' = del_patient(patients, opt)
  /\ Counted
  /\ firstpatient' = FALSE
  /\ pc' = "insert"
  /\ UNCHANGED << pulled, exhausted, args_npatients, npatients, datas, row,
                  merged, nrec, failed >>
  /\ twin' = twin_fold(twin, row)
  /\ UNCHANGED folded
  /\ UNCHANGED << sorted_inputs, gen >>

\* "start new record" after the eviction
InsertAfterEvict ==
  /\ pc = "insert"
  /\ patients' = Append(patients, NewRecord(row, nrec + 1))
  /\ nrec' = nrec + 1
  /\ pc' = "loop"
  /\ UNCHANGED << pulled, exhausted, args_npatients, npatients, datas, row,
                  counts, nrows, firstpatient, out, merged, failed >>
  /\ folded' = Append(folded, nrec + 1)
  /\ UNCHANGED twin
  /\ UNCHANGED << sorted_inputs, gen >>

\* ------------------------------------------------------------------------
\* End of input: final records, totals, close
\* ------------------------------------------------------------------------
\* faulty variant: the totals written before the final records
DrainAfterTotals ==
  /\ pc = "drain"
  /\ out' = drain_records(Append(out, TotalsToken(counts)), firstpatient,
                          patients)
  /\ firstpatient' = (firstpatient /\ patients = << >>)
  /\ patients' = [k \in 1..Len(patients) |->
                    [patients[k] EXCEPT !.timestamp = NoTimestamp]]
  /\ pc' = "totals"
  /\ UNCHANGED << pulled, exhausted, args_npatients, npatients, datas, row,
                  counts, nrows, merged, nrec, failed >>
  /\ UNCHANGED << folded, twin >>
  /\ UNCHANGED << sorted_inputs, gen >>

Drain ==
  /\ pc = "drain"
  /\ out' = drain_records(out, firstpatient, patients)
  /\ firstpatient' = (firstpatient /\ patients = << >>)
  /\ patients' = [k \in 1..Len(patients) |->
                    [patients[k] EXCEPT !.timestamp = NoTimestamp]]
  /\ pc' = "totals"
  /\ UNCHANGED << pulled, exhausted, args_npatients, npatients, datas, row,
                  counts, nrows, merged, nrec, failed >>
  /\ UNCHANGED << folded, twin >>
  /\ UNCHANGED << sorted_inputs, gen >>

Finish ==
  /\ pc = "totals"
  /\ out' = out \o << TotalsToken(counts), Close >>
  /\ pc' = "done"
  /\ UNCHANGED << pulled, exhausted, args_npatients, npatients, datas, row,
                  patients, counts, nrows, firstpatient, merged, nrec,
                  failed >>
  /\ UNCHANGED << folded, twin >>
  /\ UNCHANGED << sorted_inputs, gen >>

Next ==
  \/ Start
  \/ StartUnknownExport
  \/ StartUnknownDownload
  \/ MultiInit
  \/ MultiInitFail
  \/ MultiNext
  \/ MultiNextFail
  \/ MultiStop
  \/ Restart
  \/ Update
  \/ InsertNew
  \/ EvictOldest
  \/ InsertAfterEvict
  \/ Drain
  \/ Finish

Spec == Init /\ [][Next]_vars

\* ------------------------------------------------------------------------
\* Properties
\* ------------------------------------------------------------------------
Ended == pc \in {"drain", "totals", "done"}

IsRecord(t) == t.kind = "record"

Records(o) == SelectSeq(o, IsRecord)

Emitted(id) == Cardinality({ k \in 1..Len(out) : IsRecord(out[k]) /\ out[k].rid = id })

\* C1: with every input stream non-decreasing in timestamp, the rows
\* returned by successive Multi.__next__ calls are non-decreasing in
\* timestamp.
C1_OrderPreservation ==
  \A i, j \in 1..Len(merged) :
    i < j => merged[i].row.timestamp <= merged[j].row.timestamp

\* C1 witness: a complete merge that interleaved two streams, the later
\* registered one first
C1_Witness ==
  /\ Ended
  /\ Len(merged) >= 3
  /\ merged[1].stream = 2
  /\ merged[2].stream = 1
  /\ merged[3].stream = 2
  /\ merged[1].row.timestamp < merged[2].row.timestamp

Exhausted(i) == i \in exhausted

Buffered(i) == \E k \in 1..Len(datas) : datas[k].stream = i

AllConsumed == \A i \in 1..NStreams : Exhausted(i) /\ ~ Buffered(i)

\* C2: Multi neither loses nor duplicates rows and signals the end of the
\* sequence exactly when every source is exhausted and no head is buffered;
\* by then it has returned as many rows as the streams hold.
C2_MergeConservation ==
  /\ ~ failed => Len(merged) + Len(datas) = TotalRows
  /\ \A i \in 1..NStreams : ~ (Exhausted(i) /\ Buffered(i))
  /\ Ended => (AllConsumed /\ Len(merged) = TotalRows)
  /\ pc = "loop" => ((Len(datas) = 0) <=> AllConsumed)
  /\ pc = "loop" /\ Len(datas) = 0 => Len(merged) = TotalRows

\* C2 witness: the end was signalled after a merge of an empty and a
\* non-empty stream, and of two non-empty streams
C2_Witness ==
  /\ pc = "drain"
  /\ Len(merged) = TotalRows
  /\ TotalRows >= 3
  /\ pulled[1] = << >>

\* C3: the window never holds more than K + 1 records, in any state of
\* process(), the state between eviction and insertion included.
C3_BoundedWindow ==
  pc # "start" => (npatients >= 0 /\ Len(patients) <= npatients + 1)

\* C3 witness: the window is at K + 1 after an eviction made room
C3_Witness ==
  /\ pc = "loop"
  /\ npatients = 1
  /\ Len(patients) = npatients + 1
  /\ \E k \in 1..Len(out) :
       /\ IsRecord(out[k])
       /\ ~ InWindow(out[k].patient_id)

CountOf(t) == IF t \in DOMAIN counts THEN counts[t] ELSE 0

Processed == IF pc = "body" THEN Len(merged) - 1 ELSE Len(merged)

InputCount(t) ==
  Cardinality(UNION { { << i, k >> : k \in { n \in 1..Len(pulled[i]) :
                                             pulled[i][n].event_type = t } }
                      : i \in 1..NStreams })

RECURSIVE SumCounts(_)
SumCounts(T) ==
  IF T = {} THEN 0
  ELSE LET t == CHOOSE x \in T : TRUE
       IN CountOf(t) + SumCounts(T \ {t})

\* C4: every merged row increments the counter of its own event type
\* exactly once and no other counter, whatever the row does to the window;
\* at the end of input Totals[t] is the number of input rows of type t and
\* the counters add up to the number of input rows.
C4_TotalsExact ==
  /\ DOMAIN counts \subseteq EventTypes
  /\ nrows = Processed
  /\ \A t \in EventTypes :
       CountOf(t) = Cardinality({ k \in 1..Processed :
                                    merged[k].row.event_type = t })
  /\ pc \in {"drain", "totals", "done"} =>
       /\ \A t \in EventTypes : CountOf(t) = InputCount(t)
       /\ SumCounts(EventTypes) = TotalRows
  /\ pc = "done" => out[Len(out) - 1] = TotalsToken(counts)

\* C4 witness: a run that restarted a record and evicted another one has
\* ended with a counter above one
C4_Witness ==
  /\ pc = "done"
  /\ \E t \in EventTypes : CountOf(t) >= 2
  /\ \E k \in 1..Len(out) :
       /\ IsRecord(out[k])
       /\ ~ InWindow(out[k].patient_id)
  /\ \E k \in 1..Len(out), j \in 1..Len(patients) :
       /\ IsRecord(out[k])
       /\ out[k].patient_id = patients[j].patient_id
       /\ out[k].rid # patients[j].rid

DuplicateCase ==
  /\ pc = "body"
  /\ InWindow(row.patient_id)
  /\ row.event_type \in DOMAIN patients[IndexOf(patients, row.patient_id)].data

\* C5: a row for a patient in the window whose record already holds the
\* row's event type emits the record with all the fields it held and
\* replaces it by a record that holds only this row's field, with
\* last_update the row's timestamp; no prior field is carried forward.
C5_DuplicateFieldFlush ==
  [][ DuplicateCase =>
        LET k == IndexOf(patients, row.patient_id)
            old == patients[k]
        IN /\ Len(out') \in {Len(out) + 1, Len(out) + 2}
           /\ SubSeq(out', 1, Len(out)) = out
           /\ out'[Len(out')] = Token("record", old.patient_id, old.data, old.rid)
           /\ Len(Records(out')) = Len(Records(out)) + 1
           /\ Len(patients') = Len(patients)
           /\ patients'[k].patient_id = row.patient_id
           /\ patients'[k].data = (row.event_type :> row.value)
           /\ patients'[k].timestamp = row.timestamp
           /\ \A j \in 1..Len(patients) : j # k => patients'[j] = patients[j]
    ]_vars

\* C5 witness: (1,HR,70), (2,SpO2,98), (3,HR,72) of one patient flushed
\* {HR:70, SpO2:98} and left {HR:72} active
C5_Witness ==
  /\ pc = "loop"
  /\ Len(out) >= 2
  /\ IsRecord(out[Len(out)])
  /\ out[Len(out)].patient_id = "P3"
  /\ out[Len(out)].data = ("HR" :> 70) @@ ("SpO2" :> 98)
  /\ InWindow("P3")
  /\ patients[IndexOf(patients, "P3")].data = ("HR" :> 72)
  /\ patients[IndexOf(patients, "P3")].timestamp = 3

EvictCase ==
  /\ pc = "body"
  /\ ~ InWindow(row.patient_id)
  /\ Len(patients) > npatients

\* C6: an eviction flushes and removes exactly one record, one whose
\* last_update is minimal among the active records; the other records stay
\* unchanged and the new patient's record is inserted only after the
\* removal.
C6_EvictionSelectsOldest ==
  [][ /\ EvictCase =>
           \E k \in 1..Len(patients) :
             /\ \A j \in 1..Len(patients) :
                  patients[k].timestamp <= patients[j].timestamp
             /\ patients' = RemoveAt(patients, k)
             /\ out'[Len(out')] = RecordToken(patients[k])
             /\ Len(Records(out')) = Len(Records(out)) + 1
             /\ SubSeq(out', 1, Len(out)) = out
             /\ pc' = "insert"
      /\ pc = "insert" =>
           /\ patients' = Append(patients, NewRecord(row, nrec + 1))
           /\ out' = out
    ]_vars

\* C6 witness: K = 1, A (last_update 1) and B (last_update 2) active, C
\* arrived at 3: A was flushed, B stayed, C is active
C6_Witness ==
  /\ pc = "loop"
  /\ npatients = 1
  /\ Len(patients) = 2
  /\ patients[1].patient_id = "P2" /\ patients[1].timestamp = 2
  /\ patients[2].patient_id = "P1" /\ patients[2].timestamp = 3
  /\ Len(Records(out)) = 1
  /\ Records(out)[1].patient_id = "P3"
  /\ Records(out)[1].data = ("HR" :> 70)

HeadOf(s) == datas[CHOOSE k \in 1..Len(datas) : datas[k].stream = s]

Returning == pc = "loop" /\ pc' = "body"

\* C7, as stated: among the heads tied at the minimum timestamp the one of
\* the earliest registered source is returned first, at every step.
C7_FirstRegisteredWins ==
  [][ Returning =>
        LET e == merged'[Len(merged')]
        IN \A k \in 1..Len(datas) :
             datas[k].row.timestamp = e.row.timestamp
               => e.stream <= datas[k].stream
    ]_vars

\* C7, amended: among the heads tied at the minimum timestamp the one
\* pulled most recently by Multi.__next__ is returned first; the earliest
\* registered source wins only among heads that were all primed by
\* Multi.__init__.
C7_LatestPulledWins ==
  [][ Returning =>
        LET e == merged'[Len(merged')]
            h == HeadOf(e.stream)
        IN /\ h.row = e.row
           /\ \A k \in 1..Len(datas) :
                (datas[k].stream # e.stream
                 /\ datas[k].row.timestamp = e.row.timestamp)
                  => \/ h.at > datas[k].at
                     \/ h.at = 0 /\ datas[k].at = 0
                                 /\ e.stream < datas[k].stream
    ]_vars

\* C7 witness: two heads tied, and the later registered source, whose head
\* was pulled later, was returned first
C7_Witness ==
  \E i \in 1..(Len(merged) - 1) :
    /\ merged[i].row.timestamp = merged[i + 1].row.timestamp
    /\ merged[i].stream > merged[i + 1].stream

WindowIds == { patients[k].rid : k \in 1..Len(patients) }

\* C8: at the end of input every record still in the window is flushed,
\* and every record ever created is emitted exactly once: never twice, and
\* never zero times once the final drain is over.
C8_EmittedExactlyOnce ==
  /\ \A k \in 1..Len(out) : IsRecord(out[k]) => out[k].rid \in 1..nrec
  /\ \A id \in 1..nrec : Emitted(id) <= 1
  /\ Cardinality(WindowIds) = Len(patients)
  /\ WindowIds \subseteq 1..nrec
  /\ pc \in {"totals", "done"} => \A id \in 1..nrec : Emitted(id) = 1
  /\ pc \notin {"totals", "done"} =>
       \A id \in 1..nrec : (Emitted(id) = 1) <=> (id \notin WindowIds)

\* C8 witness: a run ended after an eviction or restart, with two records
\* flushed by the final drain
C8_Witness ==
  /\ pc = "done"
  /\ nrec >= 3
  /\ Len(patients) = 2
  /\ Len(Records(out)) = nrec

Stream1 == << Row("P1", 1, "HR", 60), Row("P1", 3, "HR", 65) >>

Stream2 == << Row("P2", 2, "SpO2", 97) >>

ScenarioInput ==
  /\ pulled[1] = Stream1
  /\ pulled[2] = Stream2
  /\ \A i \in 3..NStreams : pulled[i] = << >>
  /\ npatients = 2

Content(t) == << t.patient_id, t.data >>

\* C9: Stream1 = [(P1,10:00,HR,60),(P1,10:02,HR,65)], Stream2 =
\* [(P2,10:01,SpO2,97)], K = 2: merged order P1/HR60, P2/SpO2 97, P1/HR65;
\* the third row flushes P1{HR:60}; the final drain flushes exactly
\* P2{SpO2:97} and P1{HR:65}; three records in total; Totals = {HR:2,
\* SpO2:1}.
C9_EndToEnd ==
  (ScenarioInput /\ ~ failed) =>
    /\ \A k \in 1..Len(merged) :
         merged[k].row = << Stream1[1], Stream2[1], Stream1[2] >>[k]
    /\ (Len(merged) < 3 \/ pc = "body") => Records(out) = << >>
    /\ (Len(merged) = 3 /\ pc \in {"loop", "drain"}) =>
         /\ Len(Records(out)) = 1
         /\ Content(Records(out)[1]) = << "P1", ("HR" :> 60) >>
    /\ pc \in {"totals", "done"} =>
         /\ Len(merged) = 3
         /\ Len(Records(out)) = 3
         /\ Content(Records(out)[1]) = << "P1", ("HR" :> 60) >>
         /\ { Content(Records(out)[2]), Content(Records(out)[3]) }
              = { << "P2", ("SpO2" :> 97) >>, << "P1", ("HR" :> 65) >> }
         /\ counts = ("HR" :> 2) @@ ("SpO2" :> 1)
    /\ pc = "done" =>
         out[Len(out) - 1] = TotalsToken(("HR" :> 2) @@ ("SpO2" :> 1))

\* C9 witness: the scenario ran to completion
C9_Witness ==
  /\ ScenarioInput
  /\ pc = "done"
  /\ Len(Records(out)) = 3

Written(kind) == \E k \in 1..Len(out) : out[k].kind = kind

\* C10: once a pull has failed, in Multi.__init__ or in Multi.__next__,
\* the run is aborted: nothing more is written, the records in the window
\* are never flushed, neither the totals nor the closing of the document
\* are written and the run never completes.
C10_FailFast ==
  /\ [](failed => (pc = "aborted" /\ ~ Written("totals") /\ ~ Written("close")))
  /\ [][ failed => (out' = out /\ patients' = patients /\ pc' = pc) ]_vars

\* C10 witness: a pull failed while records were active and one had
\* already been written
C10_Witness ==
  /\ failed
  /\ pc = "aborted"
  /\ Len(patients) >= 2
  /\ Len(Records(out)) >= 1

Separators(o) == { k \in 1..Len(o) : o[k].kind = "sep" }

\* C11: writedata writes a separator only between records: none before the
\* first record, exactly one before each later record (n - 1 for n >= 1
\* records, none for n = 0), never one after the last record.
C11_SeparatorsBetween ==
  /\ \A k \in Separators(out) :
       /\ k > 1 /\ IsRecord(out[k - 1])
       /\ k < Len(out) /\ IsRecord(out[k + 1])
  /\ \A k \in 1..Len(out) :
       (IsRecord(out[k]) /\ \E j \in 1..(k - 1) : IsRecord(out[j]))
         => out[k - 1].kind = "sep"
  /\ Cardinality(Separators(out))
       = IF Records(out) = << >> THEN 0 ELSE Len(Records(out)) - 1

\* C11 witness: three records written with two separators, the last token
\* before the totals being a record
C11_Witness ==
  /\ pc = "done"
  /\ Len(Records(out)) = 3
  /\ Cardinality(Separators(out)) = 2
  /\ IsRecord(out[Len(out) - 2])

IsPrefix(a, b) == Len(a) <= Len(b) /\ SubSeq(b, 1, Len(a)) = a

NewRecords == SubSeq(Records(out'), Len(Records(out)) + 1, Len(Records(out')))

\* C12: the container is opened before the first record; every record is
\* written when it is flushed, in flush order; the totals are written only
\* after the last record of the final drain; the container is closed after
\* the totals; no record is written after the totals.
C12_OutputOrder ==
  /\ []( /\ out # << >> => out[1] = Header
         /\ \A k \in 2..Len(out) : out[k].kind # "header"
         /\ \A k \in 1..Len(out) :
              out[k].kind = "totals" =>
                /\ pc = "done"
                /\ k = Len(out) - 1
                /\ out[Len(out)] = Close
         /\ \A k \in 1..Len(out) : out[k].kind = "close" => k = Len(out)
         /\ pc = "totals" =>
              /\ Len(Records(out)) >= Len(patients)
              /\ \A j \in 1..Len(patients) :
                   Records(out)[Len(Records(out)) - Len(patients) + j].rid
                     = patients[j].rid
         /\ pc = "done" =>
              /\ out[Len(out)] = Close
              /\ out[Len(out) - 1] = TotalsToken(counts) )
  /\ [][ /\ IsPrefix(out, out')
         /\ IsPrefix(Records(out), Records(out'))
         /\ \A k \in 1..Len(NewRecords) :
              /\ NewRecords[k].rid \in WindowIds
              /\ pc # "drain" => \A j \in 1..Len(patients') :
                                   patients'[j].rid # NewRecords[k].rid
     ]_vars

\* C12 witness: a complete run whose output holds a record flushed during
\* the loop, the records of the final drain, the totals and the close
C12_Witness ==
  /\ pc = "done"
  /\ Len(Records(out)) > Len(patients)
  /\ Len(patients) >= 2
  /\ out[1] = Header
  /\ out[Len(out)] = Close

ConfigError == pc \in {"exit_export", "exit_download"}

\* C13: an unrecognized export ID or download ID ends the run with a
\* non-zero exit, no row processed and nothing written: the output has not
\* been opened or written when the error is raised.
C13_NoOutputOnConfigError ==
  ConfigError => (out = << >> /\ merged = << >> /\ nrows = 0)

\* C13 case: the run stopped on an unknown download ID, the header written
C13_UnknownDownload ==
  /\ pc = "exit_download"
  /\ out = << Header >>

Keys(ps) == [k \in 1..Len(ps) |-> ps[k].patient_id]

Leaves == \E j \in 1..Len(patients) : ~ \E k \in 1..Len(patients') :
            patients'[k].patient_id = patients[j].patient_id

\* C14: a row for a patient in the window (new or repeated field) evicts
\* nothing: the window keeps its keys and size, every other record is
\* unchanged and no other patient's record is written; a row for a new
\* patient arriving when the window holds at most K records is inserted
\* without any write; a record leaves the window only on a row for a patient
\* not in the window arriving when the size is strictly greater than K.
C14_EvictionTrigger ==
  [][ /\ (pc = "body" /\ InWindow(row.patient_id)) =>
           LET k == IndexOf(patients, row.patient_id)
           IN /\ Keys(patients') = Keys(patients)
              /\ \A j \in 1..Len(patients) : j # k => patients'[j] = patients[j]
              /\ \A n \in 1..Len(NewRecords) :
                   NewRecords[n].rid = patients[k].rid
              /\ row.event_type \notin DOMAIN patients[k].data => out' = out
      /\ (pc = "body" /\ ~ InWindow(row.patient_id)
            /\ Len(patients) <= npatients) =>
           /\ out' = out
           /\ patients' = Append(patients, NewRecord(row, nrec + 1))
      /\ Leaves => EvictCase
    ]_vars

\* C14 witness: K >= 1 and the window filled to K + 1 records, the last
\* inserted at size K, without anything written but the header
C14_Witness ==
  /\ pc = "loop"
  /\ npatients >= 1
  /\ Len(patients) = npatients + 1
  /\ folded # << >>
  /\ out = << Header >>

BetweenEvents == pc \in {"loop", "body", "drain"}

\* the rows folded so far for a patient, as indices of merged
FoldedOf(patient_id) ==
  { n \in 1..Len(folded) : merged[n].row.patient_id = patient_id }

LastFolded(patient_id) ==
  CHOOSE n \in FoldedOf(patient_id) :
    \A m \in FoldedOf(patient_id) : m <= n

\* C15: between two rows, the last_update of every record in the window is
\* the timestamp of the latest row processed for its patient, that row was
\* folded into this very record, and, the inputs being time-sorted, no row
\* returned after it has a smaller timestamp.
C15_LastUpdate ==
  BetweenEvents =>
    \A k \in 1..Len(patients) :
      /\ FoldedOf(patients[k].patient_id) # {}
      /\ LET n == LastFolded(patients[k].patient_id)
         IN /\ folded[n] = patients[k].rid
            /\ patients[k].timestamp = merged[n].row.timestamp
            /\ \A m \in (n + 1)..Len(merged) :
                 patients[k].timestamp <= merged[m].row.timestamp

\* C15 witness: P3's record holds two fields, its last_update advanced from
\* 1 to 2 by the second, and a row of timestamp 3 was processed after it
C15_Witness ==
  /\ pc = "loop"
  /\ merged # << >>
  /\ Len(folded) = Len(merged)
  /\ merged[Len(merged)].row.timestamp = 3
  /\ \E k \in 1..Len(patients) :
       /\ patients[k].patient_id = "P3"
       /\ DOMAIN patients[k].data = {"HR", "SpO2"}
       /\ patients[k].timestamp = 2

Primed == pc \in {"loop", "body", "insert", "drain", "totals", "done"}

HeadsOf(i) == { k \in 1..Len(datas) : datas[k].stream = i }

\* C16: once Multi is built, between two calls of __next__ it buffers
\* exactly one head per stream that is not exhausted, the last row pulled
\* from it, and none for an exhausted stream, so at most N rows; an
\* exhausted stream stays exhausted and is never pulled from again.
C16_OneHeadPerLiveSource ==
  /\ [](Primed =>
          /\ \A i \in 1..NStreams :
               /\ Cardinality(HeadsOf(i)) = (IF Exhausted(i) THEN 0 ELSE 1)
               /\ ~ Exhausted(i) =>
                    /\ pulled[i] # << >>
                    /\ HeadOf(i).row = pulled[i][Len(pulled[i])]
          /\ Len(datas) = NStreams - Cardinality(exhausted)
          /\ Len(datas) <= NStreams)
  /\ [][ \A i \in exhausted : i \in exhausted' /\ pulled'[i] = pulled[i] ]_vars

\* C16 witness: a stream that gave rows is exhausted and has no head, while
\* another stream, already pulled from twice, still has its one head
C16_Witness ==
  /\ pc = "loop"
  /\ \E i \in exhausted : pulled[i] # << >> /\ HeadsOf(i) = {}
  /\ \E j \in 1..NStreams :
       j \notin exhausted /\ Len(pulled[j]) >= 2 /\ Cardinality(HeadsOf(j)) = 1

\* ------------------------------------------------------------------------
\* Two runs on the same streams with different capacities
\* ------------------------------------------------------------------------
InitPair ==
  /\ ProcessInit
  /\ args_npatients \in Arguments
  /\ twin \in { TwinWith(a) : a \in { b \in Arguments :
                                       capacity(b) > capacity(args_npatients) } }
  /\ sorted_inputs = TRUE
  /\ gen = GenIdle

SpecPair == InitPair /\ [][Next]_vars

\* C17: two runs on the same input streams with different capacities K1 and
\* K2 hold identical totals after every row of the merged sequence and write
\* identical totals at the end of input, whatever each run has flushed.
C17_TotalsIndependentOfK ==
  twin.on =>
    /\ pc \notin {"start", "exit_export"} => twin.npatients # npatients
    /\ twin.counts = counts
    /\ pc = "done" => out[Len(out) - 1] = TotalsToken(twin.counts)

\* C17 witness: both runs are over, the run with the smaller capacity has
\* evicted a record that the other run still holds in its window
C17_Witness ==
  /\ pc = "done"
  /\ twin.on
  /\ twin.npatients > npatients
  /\ Len(twin.patients) > Len(patients)
  /\ SumCounts(EventTypes) >= 3

\* ------------------------------------------------------------------------
\* Server: build_exports and DownloadMeta.csv for one export. Time is
\* counted in the resolution of timedelta (microseconds), the step being
\* Step of them; rng.randint and rng.uniform are choices.
\* ------------------------------------------------------------------------
GenDownloads == 2
GenMinRows == 1
GenMaxRows == 2
Step == 2

\* spec.start_time, taken as the origin of time
StartTime == 0

\* timedelta(seconds=rng.uniform(0, step_seconds)), far too wide
JitterWide == 0..(2 * Step)

\* timedelta(seconds=rng.uniform(0, step_seconds)): uniform gives a float
\* in [0, step] and timedelta rounds it to the microsecond, both ends
\* included
Jitter == 0..Step

DownloadMeta(rows, start_time, end_time) ==
  [rows |-> rows, start_time |-> start_time, end_time |-> end_time]

ProcessIdle ==
  UNCHANGED << pulled, exhausted, args_npatients, pc, npatients, datas, row,
               patients, counts, nrows, firstpatient, out, merged, nrec,
               failed, folded, sorted_inputs, twin >>

\* one turn of "for i in range(spec.downloads)"
GenBuild ==
  /\ gen.pc = "build"
  /\ Len(gen.downloads) < GenDownloads
  /\ \E rows \in GenMinRows..GenMaxRows :
       LET curr_time == IF gen.downloads = << >> THEN StartTime
                        ELSE gen.curr_time
           end_time == curr_time + rows * Step
       IN gen' = [gen EXCEPT
                    !.downloads = Append(@, DownloadMeta(rows, curr_time,
                                                         end_time)),
                    !.curr_time = end_time]
  /\ ProcessIdle

\* the registry is built, the server serves
GenBuilt ==
  /\ gen.pc = "build"
  /\ Len(gen.downloads) = GenDownloads
  /\ gen' = [gen EXCEPT !.pc = "serve"]
  /\ ProcessIdle

\* a request for the data of download d: csv() starts
GenCsv ==
  /\ gen.pc = "serve"
  /\ \E d \in 1..Len(gen.downloads) :
       gen' = [gen EXCEPT !.pc = "csv", !.d = d, !.i = 0,
                          !.csv_time = gen.downloads[d].start_time,
                          !.ts = << >>]
  /\ ProcessIdle

\* one turn of "for _ in range(self.rows)"
GenRow ==
  /\ gen.pc = "csv"
  /\ gen.i < gen.downloads[gen.d].rows
  /\ \E j \in Jitter :
       gen' = [gen EXCEPT !.ts = Append(@, gen.csv_time + j),
                          !.csv_time = @ + Step,
                          !.i = @ + 1]
  /\ ProcessIdle

\* the last row is out
GenCsvDone ==
  /\ gen.pc = "csv"
  /\ gen.i = gen.downloads[gen.d].rows
  /\ gen' = [gen EXCEPT !.pc = "serve"]
  /\ ProcessIdle

InitGen ==
  /\ ProcessInit
  /\ args_npatients = None
  /\ sorted_inputs = TRUE
  /\ twin = TwinOff
  /\ gen = GenIdle

NextGen ==
  \/ GenBuild
  \/ GenBuilt
  \/ GenCsv
  \/ GenRow
  \/ GenCsvDone

SpecGen == InitGen /\ [][NextGen]_vars

\* C18: the downloads of an export get consecutive time windows (the first
\* starts at start_time, each next one at the end_time of the one before,
\* end_time = start_time + rows * step); row i of a download, counted from
\* 0, has its timestamp in [start_time + i*step, start_time + (i+1)*step],
\* so the rows of a download are non-decreasing and inside its window.
C18_GeneratorWindows ==
  /\ \A d \in 1..Len(gen.downloads) :
       /\ gen.downloads[d].end_time
            = gen.downloads[d].start_time + gen.downloads[d].rows * Step
       /\ gen.downloads[d].start_time
            = (IF d = 1 THEN StartTime ELSE gen.downloads[d - 1].end_time)
  /\ gen.d # 0 =>
       LET dl == gen.downloads[gen.d]
       IN /\ Len(gen.ts) <= dl.rows
          /\ \A n \in 1..Len(gen.ts) :
               /\ dl.start_time + (n - 1) * Step <= gen.ts[n]
               /\ gen.ts[n] <= dl.start_time + n * Step
               /\ dl.start_time <= gen.ts[n]
               /\ gen.ts[n] <= dl.end_time
          /\ \A n \in 2..Len(gen.ts) : gen.ts[n - 1] <= gen.ts[n]

\* C18 witness: the second download, all its rows served, two of them with
\* the same timestamp (the upper end of one slot, the lower end of the next)
C18_Witness ==
  /\ gen.pc = "serve"
  /\ gen.d = 2
  /\ Len(gen.ts) = gen.downloads[2].rows
  /\ Len(gen.ts) >= 2
  /\ gen.ts[1] = gen.ts[2]
  /\ gen.downloads[2].start_time > StartTime

\* ------------------------------------------------------------------------
\* Streams of any content: a stream may give its rows in any time order
\* ------------------------------------------------------------------------
InitAny ==
  /\ ProcessInit
  /\ args_npatients = 0
  /\ sorted_inputs = FALSE
  /\ twin = TwinOff
  /\ gen = GenIdle

SpecAny == InitAny /\ [][Next]_vars

\* the rows of m that came from stream i, in the order of m
RECURSIVE RowsFrom(_, _)
RowsFrom(m, i) ==
  IF m = << >> THEN << >>
  ELSE IF Head(m).stream = i
       THEN << Head(m).row >> \o RowsFrom(Tail(m), i)
       ELSE RowsFrom(Tail(m), i)

\* C19: whatever the streams hold, sorted or not, the rows Multi has
\* returned that came from one stream are the rows of that stream in their
\* original order: a prefix of what was pulled from it, all of it but the
\* buffered head while the stream is live, and all of it once Multi ends.
C19_SourceOrderPreserved ==
  \A i \in 1..NStreams :
    /\ IsPrefix(RowsFrom(merged, i), pulled[i])
    /\ (Primed /\ ~ failed) =>
         Len(pulled[i]) - Len(RowsFrom(merged, i))
           = (IF Buffered(i) THEN 1 ELSE 0)
    /\ (Ended /\ ~ failed) => RowsFrom(merged, i) = pulled[i]

\* C19 witness: a stream whose timestamps decrease was merged whole, in its
\* own order, with a row of another stream returned between two of its rows
C19_Witness ==
  /\ pc = "done"
  /\ \E i \in 1..NStreams :
       /\ Len(pulled[i]) >= 2
       /\ pulled[i][1].timestamp > pulled[i][2].timestamp
       /\ RowsFrom(merged, i) = pulled[i]
       /\ \E a, b, c \in 1..Len(merged) :
            /\ a < b /\ b < c
            /\ merged[a].stream = i /\ merged[c].stream = i
            /\ merged[b].stream # i

\* the record numbered id, as the window holds it or as it was written
Holders(id) ==
  { << patients[k].patient_id, patients[k].data >> :
      k \in { j \in 1..Len(patients) : patients[j].rid = id } }
  \cup { << out[k].patient_id, out[k].data >> :
           k \in { j \in 1..Len(out) : IsRecord(out[j]) /\ out[j].rid = id } }

RECURSIVE Fields(_)
Fields(rs) ==
  IF rs = << >> THEN 0
  ELSE Cardinality(DOMAIN Head(rs).data) + Fields(Tail(rs))

Active == IF pc \in {"totals", "done"} THEN << >> ELSE patients

\* C20: no observation is lost or overwritten: a field of a record in the
\* window never changes its value; every processed row's (event_type,
\* value) is held, under the row's patient, by the one record the row was
\* folded into, no two rows share a field of a record, and the fields of
\* the written and active records are as many as the processed rows; after
\* a complete run every row is in exactly one written record and the
\* written fields are as many as the input rows and as the sum of totals.
C20_NoObservationLost ==
  /\ []( /\ \A n \in 1..Len(folded) :
              /\ Holders(folded[n])
                   = { h \in Holders(folded[n]) :
                         /\ h[1] = merged[n].row.patient_id
                         /\ merged[n].row.event_type \in DOMAIN h[2]
                         /\ h[2][merged[n].row.event_type]
                              = merged[n].row.value }
              /\ Cardinality(Holders(folded[n])) = 1
         /\ \A n, m \in 1..Len(folded) :
              (n # m /\ folded[n] = folded[m]) =>
                merged[n].row.event_type # merged[m].row.event_type
         /\ Fields(Records(out)) + Fields(Active) = Len(folded)
         /\ pc = "done" =>
              /\ Len(folded) = Len(merged)
              /\ \A n \in 1..Len(folded) : Emitted(folded[n]) = 1
              /\ Fields(Records(out)) = TotalRows
              /\ Fields(Records(out)) = SumCounts(EventTypes) )
  /\ [][ \A k \in 1..Len(patients), j \in 1..Len(patients') :
           patients'[j].rid = patients[k].rid =>
             \A t \in DOMAIN patients[k].data :
               /\ t \in DOMAIN patients'[j].data
               /\ patients'[j].data[t] = patients[k].data[t]
     ]_vars

\* C20 witness: a complete run in which the same patient gave the same
\* event type twice with different values, and both values were written
C20_Witness ==
  /\ pc = "done"
  /\ \E a, b \in 1..Len(Records(out)) :
       /\ a < b
       /\ Records(out)[a].patient_id = "P1"
       /\ Records(out)[b].patient_id = "P1"
       /\ Records(out)[a].data = ("HR" :> 60)
       /\ "HR" \in DOMAIN Records(out)[b].data
       /\ Records(out)[b].data["HR"] = 65
  /\ Fields(Records(out)) = Len(merged)
  /\ Len(merged) >= 3

====
